---- MODULE Spec2Model ----
(***************************************************************************)
(* Workday state tracker of Chat-api-gpt.                                  *)
(*                                                                         *)
(* Two WorkdayService implementations live in the repository:              *)
(*   "stored"  the stored-field service (src/unnamed/part_021): the record *)
(*             keeps startedAt/endedAt/pauseStartedAt/... and toDto copies *)
(*             them;                                                       *)
(*   "replay"  the event-replay service (src/unnamed/part_020): the record *)
(*             keeps status and events, toDto replays the events.          *)
(* Both write to the Workday collection (schema at the end of             *)
(* src/src/modules/calls/calls.gateway.ts) with its unique index on        *)
(* (userId, dateKey).  A deployment wires one of them: Init chooses.       *)
(*                                                                         *)
(* Time is an integer clock; MinuteUnits clock units are 60000 ms and      *)
(* DayLen clock units are one calendar day in America/Santiago.            *)
(***************************************************************************)
EXTENDS Integers, Sequences, FiniteSets, TLC

\* ---------------------------------------------------------------- bounds
MaxTime == 4
DayLen == 3
MinuteUnits == 2
MaxEvents == 4
MaxRecords == 2
\* The concurrent specification: events stored, and ticks of a clock that
\* starts EveBefore units before midnight.
MaxEventsC == 2
MaxTicksC == 1
EveBefore == 1
\* The one-day concurrent specification.
MaxEventsD == 4
MaxTicksD == 1
\* The round-trip specification.
MaxEventsR == 6
\* The bulk-status specification.
MaxEventsB == 1
MaxIds == 2
\* The specification of the two services side by side.
MaxEventsT == 4
\* The refresh-token specification.
MaxTicksA == 2
\* The specification with failing writes.
MaxEventsF == 2
MaxWrites == 2

Users == {"u1"}
ReqIds == {1, 2}
Variants == {"stored", "replay"}

\* ---------------------------------------------------------------- types
NOT_STARTED == "NOT_STARTED"
ACTIVE == "ACTIVE"
PAUSED == "PAUSED"
LUNCH == "LUNCH"
ENDED == "ENDED"
WorkdayStatus == {NOT_STARTED, ACTIVE, PAUSED, LUNCH, ENDED}

EvSTART == "START"
EvPAUSE == "PAUSE"
EvLUNCH == "LUNCH"
EvRESUME == "RESUME"
EvEND == "END"
EvRECONNECT == "RECONNECT"
EvRESET == "RESET"

\* A stored Date | null: an instant of the clock, or Null.
Null == -1
\* A DTO string | null: toISOString renders the instant, NullIso is null.
NullIso == <<>>
toISOString(d) == <<"ISO", d>>
isoOrNull(d) == IF d = Null THEN NullIso ELSE toISOString(d)

\* Operation names and the kinds of failure a handler can end in.
OpGetToday == "getToday"
OpStart == "start"
OpSetActive == "setActive"
OpPause == "pause"
OpLunch == "lunch"
OpEnd == "end"
OpReset == "reset"
NoErr == "ok"
BadRequest == "BadRequestException"
NotFound == "NotFoundException"
DuplicateKey == "E11000"
\* A create() or save() the storage rejected (or never completed).
StorageError == "MongoError"

\* The operations each service exposes (getToday is getTodayByUserId in replay).
OpsOf(v) ==
  IF v = "stored" THEN {OpGetToday, OpStart, OpSetActive, OpPause, OpLunch, OpEnd}
  ELSE {OpGetToday, OpStart, OpSetActive, OpPause, OpLunch, OpEnd, OpReset}

\* ---------------------------------------------------------------- time
chileDateKey(t) == t \div DayLen

\* Math.ceil(ms / MinuteUnits) and Math.floor(ms / MinuteUnits) on integers.
CeilDiv(a, b) == -((-a) \div b)
Max(a, b) == IF a >= b THEN a ELSE b

\* part_021: Math.max(0, Math.ceil(ms / 60000))
S_diffMinutes(from, to) == Max(0, CeilDiv(to - from, MinuteUnits))

\* part_020: if (ms <= 0) return 0; Math.floor(ms / 60000)
R_diffMinutes(from, to) ==
  IF to - from <= 0 THEN 0 ELSE (to - from) \div MinuteUnits

\* ---------------------------------------------------------------- schema
\* A new document with the schema's defaults.
NewWorkday(u, dk, st) ==
  [userId |-> u, dateKey |-> dk, status |-> st,
   startedAt |-> Null, endedAt |-> Null,
   pauseStartedAt |-> Null, lunchStartedAt |-> Null,
   totalPauseMinutes |-> 0, totalLunchMinutes |-> 0,
   events |-> <<>>]

Event(type, at) == [type |-> type, at |-> at]

\* findOne({userId, dateKey}): the position of the first match, 0 when none.
\* The documents of a user, whatever the day.
Matches_anyDay(coll, u, dk) ==
  {i \in 1..Len(coll) : coll[i].userId = u}
Matches(coll, u, dk) ==
  {i \in 1..Len(coll) : coll[i].userId = u /\ coll[i].dateKey = dk}
Min(S) == CHOOSE x \in S : \A y \in S : x <= y
findOne(coll, u, dk) ==
  IF Matches(coll, u, dk) = {} THEN 0 ELSE Min(Matches(coll, u, dk))

\* Insert without the unique index: every insert is accepted.
insertOne_noUniqueIndex(coll, rec) == [ok |-> TRUE, coll |-> Append(coll, rec)]

\* Insert under WorkdaySchema.index({userId: 1, dateKey: 1}, {unique: true}):
\* a second document of the same key is refused with E11000.
insertOne(coll, rec) ==
  IF Matches(coll, rec.userId, rec.dateKey) # {}
  THEN [ok |-> FALSE, coll |-> coll]
  ELSE [ok |-> TRUE, coll |-> Append(coll, rec)]

\* doc.save() of a loaded document: Mongoose sends the delta of the local
\* document against what it loaded -- $set of the paths whose value changed,
\* $push of the events pushed -- to the stored document of the same _id.
Pushed(before, after) == SubSeq(after.events, Len(before.events) + 1, Len(after.events))
SetIfChanged(stored, before, after) ==
  [stored EXCEPT
     !.status = IF after.status # before.status THEN after.status ELSE @,
     !.startedAt = IF after.startedAt # before.startedAt THEN after.startedAt ELSE @,
     !.endedAt = IF after.endedAt # before.endedAt THEN after.endedAt ELSE @,
     !.pauseStartedAt =
        IF after.pauseStartedAt # before.pauseStartedAt THEN after.pauseStartedAt ELSE @,
     !.lunchStartedAt =
        IF after.lunchStartedAt # before.lunchStartedAt THEN after.lunchStartedAt ELSE @,
     !.totalPauseMinutes =
        IF after.totalPauseMinutes # before.totalPauseMinutes
        THEN after.totalPauseMinutes ELSE @,
     !.totalLunchMinutes =
        IF after.totalLunchMinutes # before.totalLunchMinutes
        THEN after.totalLunchMinutes ELSE @,
     !.events = @ \o Pushed(before, after)]
save(coll, i, before, after) ==
  [coll EXCEPT ![i] = SetIfChanged(coll[i], before, after)]

\* ---------------------------------------------------------------- DTO
NoDto ==
  [userId |-> "", dateKey |-> Null, status |-> "NONE",
   startedAt |-> NullIso, endedAt |-> NullIso,
   pauseStartedAt |-> NullIso, lunchStartedAt |-> NullIso,
   totalPauseMinutes |-> 0, totalLunchMinutes |-> 0, events |-> <<>>]

EventsDto(events) ==
  [k \in 1..Len(events) |-> [type |-> events[k].type, at |-> toISOString(events[k].at)]]

\* part_021 toDto: the stored fields, dates rendered as ISO strings.
S_toDto(doc) ==
  [userId |-> doc.userId, dateKey |-> doc.dateKey, status |-> doc.status,
   startedAt |-> isoOrNull(doc.startedAt), endedAt |-> isoOrNull(doc.endedAt),
   pauseStartedAt |-> isoOrNull(doc.pauseStartedAt),
   lunchStartedAt |-> isoOrNull(doc.lunchStartedAt),
   totalPauseMinutes |-> doc.totalPauseMinutes,
   totalLunchMinutes |-> doc.totalLunchMinutes,
   events |-> EventsDto(doc.events)]

\* events.sort((a, b) => a.at - b.at): a stable sort by instant.
RECURSIVE InsertByAt(_, _)
InsertByAt(sorted, e) ==
  IF sorted = <<>> THEN <<e>>
  ELSE IF sorted[Len(sorted)].at <= e.at THEN Append(sorted, e)
  ELSE Append(InsertByAt(SubSeq(sorted, 1, Len(sorted) - 1), e), sorted[Len(sorted)])
RECURSIVE SortByAt(_)
SortByAt(events) ==
  IF events = <<>> THEN <<>>
  ELSE InsertByAt(SortByAt(SubSeq(events, 1, Len(events) - 1)), events[Len(events)])

\* part_020 toDto, the locals of the replay loop before the first event.
ReplayInit ==
  [startedAt |-> NullIso, endedAt |-> NullIso,
   pauseStartedAt |-> NullIso, lunchStartedAt |-> NullIso,
   totalPauseMinutes |-> 0, totalLunchMinutes |-> 0,
   pauseOpenAt |-> Null, lunchOpenAt |-> Null, lastMode |-> "null"]

closePause(s, to) ==
  IF s.pauseOpenAt = Null THEN s
  ELSE [s EXCEPT !.totalPauseMinutes = @ + R_diffMinutes(s.pauseOpenAt, to),
                 !.pauseOpenAt = Null, !.lastMode = "null"]

closeLunch(s, to) ==
  IF s.lunchOpenAt = Null THEN s
  ELSE [s EXCEPT !.totalLunchMinutes = @ + R_diffMinutes(s.lunchOpenAt, to),
                 !.lunchOpenAt = Null, !.lastMode = "null"]

\* One iteration of the switch over ev.type.
ReplayStep(s, ev) ==
  LET iso == toISOString(ev.at) IN
  CASE ev.type = EvSTART ->
         [s EXCEPT !.startedAt = IF @ = NullIso THEN iso ELSE @,
                   !.pauseOpenAt = Null, !.lunchOpenAt = Null, !.lastMode = "null"]
    [] ev.type = EvPAUSE ->
         [s EXCEPT !.pauseStartedAt = iso, !.pauseOpenAt = ev.at,
                   !.lunchOpenAt = Null, !.lastMode = "PAUSE"]
    [] ev.type = EvLUNCH ->
         [s EXCEPT !.lunchStartedAt = iso, !.lunchOpenAt = ev.at,
                   !.pauseOpenAt = Null, !.lastMode = "LUNCH"]
    [] ev.type = EvRESUME ->
         LET s1 == IF s.lastMode = "PAUSE" THEN closePause(s, ev.at) ELSE s
         IN IF s1.lastMode = "LUNCH" THEN closeLunch(s1, ev.at) ELSE s1
    [] ev.type = EvRESET ->
         LET s2 == closeLunch(closePause(s, ev.at), ev.at)
         IN [s2 EXCEPT !.startedAt = IF @ = NullIso THEN iso ELSE @]
    [] ev.type = EvRECONNECT ->
         [s EXCEPT !.startedAt = IF @ = NullIso THEN iso ELSE @]
    [] ev.type = EvEND ->
         closeLunch(closePause([s EXCEPT !.endedAt = iso], ev.at), ev.at)
    [] OTHER -> s

RECURSIVE Replay(_)
Replay(events) ==
  IF events = <<>> THEN ReplayInit
  ELSE ReplayStep(Replay(SubSeq(events, 1, Len(events) - 1)), events[Len(events)])

\* part_020 toDto: status from the document, everything else replayed from
\* the sorted events.
R_toDto(doc) ==
  LET events == SortByAt(doc.events)
      s == Replay(events)
  IN [userId |-> doc.userId, dateKey |-> doc.dateKey, status |-> doc.status,
      startedAt |-> s.startedAt, endedAt |-> s.endedAt,
      pauseStartedAt |-> s.pauseStartedAt, lunchStartedAt |-> s.lunchStartedAt,
      totalPauseMinutes |-> s.totalPauseMinutes,
      totalLunchMinutes |-> s.totalLunchMinutes,
      events |-> EventsDto(events)]

toDto(v, doc) == IF v = "stored" THEN S_toDto(doc) ELSE R_toDto(doc)

\* ---------------------------------------------------------------- part_021
\* The result of the synchronous part of a handler on its loaded document:
\* the failure (or NoErr), the document as mutated, whether save() is called.
Res(err, doc, saved) == [err |-> err, doc |-> doc, saved |-> saved]

\* closeOpenIntervals with the credit subtracted instead of added.
closeOpenIntervals_subtracts(doc, now) ==
  LET d1 == IF doc.pauseStartedAt # Null
            THEN [doc EXCEPT !.totalPauseMinutes = @ - S_diffMinutes(doc.pauseStartedAt, now),
                             !.pauseStartedAt = Null]
            ELSE doc
  IN IF d1.lunchStartedAt # Null
     THEN [d1 EXCEPT !.totalLunchMinutes = @ - S_diffMinutes(d1.lunchStartedAt, now),
                     !.lunchStartedAt = Null]
     ELSE d1

closeOpenIntervals(doc, now) ==
  LET d1 == IF doc.pauseStartedAt # Null
            THEN [doc EXCEPT !.totalPauseMinutes = @ + S_diffMinutes(doc.pauseStartedAt, now),
                             !.pauseStartedAt = Null]
            ELSE doc
  IN IF d1.lunchStartedAt # Null
     THEN [d1 EXCEPT !.totalLunchMinutes = @ + S_diffMinutes(d1.lunchStartedAt, now),
                     !.lunchStartedAt = Null]
     ELSE d1

\* if (!doc.startedAt || doc.status === NOT_STARTED) throw BadRequest
assertStarted(doc) == ~(doc.startedAt = Null \/ doc.status = NOT_STARTED)

\* start(), the document that create() is given when none exists.
S_created(u, dk, now) ==
  [NewWorkday(u, dk, ACTIVE) EXCEPT !.startedAt = now,
                                    !.events = <<Event(EvSTART, now)>>]

\* start() on an existing document, with startedAt assigned without the
\* `existing.startedAt ??` guard.
S_start_overwritesStartedAt(doc, now) ==
  IF doc.status = ENDED THEN
    LET d == closeOpenIntervals(doc, now) IN
    Res(NoErr,
        [d EXCEPT !.status = ACTIVE, !.endedAt = Null,
                  !.pauseStartedAt = Null, !.lunchStartedAt = Null,
                  !.startedAt = now,
                  !.events = Append(@, Event(EvSTART, now))],
        TRUE)
  ELSE IF doc.status = NOT_STARTED THEN
    Res(NoErr,
        [doc EXCEPT !.status = ACTIVE,
                    !.startedAt = now,
                    !.events = Append(@, Event(EvSTART, now))],
        TRUE)
  ELSE Res(NoErr, doc, FALSE)

\* start() on an existing document, refusing a day that has ended.
S_start_rejectsEnded(doc, now) ==
  IF doc.status = ENDED THEN Res(BadRequest, doc, FALSE)
  ELSE IF doc.status = NOT_STARTED THEN
    Res(NoErr,
        [doc EXCEPT !.status = ACTIVE,
                    !.startedAt = IF @ = Null THEN now ELSE @,
                    !.events = Append(@, Event(EvSTART, now))],
        TRUE)
  ELSE Res(NoErr, doc, FALSE)

\* start() on an existing document.
S_start(doc, now) ==
  IF doc.status = ENDED THEN
    LET d == closeOpenIntervals(doc, now) IN
    Res(NoErr,
        [d EXCEPT !.status = ACTIVE, !.endedAt = Null,
                  !.pauseStartedAt = Null, !.lunchStartedAt = Null,
                  !.startedAt = IF @ = Null THEN now ELSE @,
                  !.events = Append(@, Event(EvSTART, now))],
        TRUE)
  ELSE IF doc.status = NOT_STARTED THEN
    Res(NoErr,
        [doc EXCEPT !.status = ACTIVE,
                    !.startedAt = IF @ = Null THEN now ELSE @,
                    !.events = Append(@, Event(EvSTART, now))],
        TRUE)
  ELSE Res(NoErr, doc, FALSE)

\* setActive that leaves endedAt as it finds it.
S_setActive_keepsEndedAt(doc, now) ==
  IF ~assertStarted(doc) THEN Res(BadRequest, doc, FALSE)
  ELSE IF doc.status = ACTIVE THEN Res(NoErr, doc, FALSE)
  ELSE IF doc.status \notin {PAUSED, LUNCH, ENDED} THEN Res(BadRequest, doc, FALSE)
  ELSE
    LET d == closeOpenIntervals(doc, now) IN
    Res(NoErr,
        [d EXCEPT !.status = ACTIVE,
                  !.pauseStartedAt = Null, !.lunchStartedAt = Null,
                  !.events = Append(@, Event(EvRESUME, now))],
        TRUE)

S_setActive(doc, now) ==
  IF ~assertStarted(doc) THEN Res(BadRequest, doc, FALSE)
  ELSE IF doc.status = ACTIVE THEN Res(NoErr, doc, FALSE)
  ELSE IF doc.status \notin {PAUSED, LUNCH, ENDED} THEN Res(BadRequest, doc, FALSE)
  ELSE
    LET d == closeOpenIntervals(doc, now) IN
    Res(NoErr,
        [d EXCEPT !.status = ACTIVE, !.endedAt = Null,
                  !.pauseStartedAt = Null, !.lunchStartedAt = Null,
                  !.events = Append(@, Event(EvRESUME, now))],
        TRUE)

S_pause(doc, now) ==
  IF ~assertStarted(doc) THEN Res(BadRequest, doc, FALSE)
  ELSE IF doc.status = PAUSED THEN Res(BadRequest, doc, FALSE)
  ELSE IF doc.status \notin {ACTIVE, LUNCH} THEN Res(BadRequest, doc, FALSE)
  ELSE
    LET d == closeOpenIntervals(doc, now) IN
    Res(NoErr,
        [d EXCEPT !.status = PAUSED, !.pauseStartedAt = now, !.lunchStartedAt = Null,
                  !.events = Append(@, Event(EvPAUSE, now))],
        TRUE)

S_lunch(doc, now) ==
  IF ~assertStarted(doc) THEN Res(BadRequest, doc, FALSE)
  ELSE IF doc.status = LUNCH THEN Res(BadRequest, doc, FALSE)
  ELSE IF doc.status \notin {ACTIVE, PAUSED} THEN Res(BadRequest, doc, FALSE)
  ELSE
    LET d == closeOpenIntervals(doc, now) IN
    Res(NoErr,
        [d EXCEPT !.status = LUNCH, !.lunchStartedAt = now, !.pauseStartedAt = Null,
                  !.events = Append(@, Event(EvLUNCH, now))],
        TRUE)

S_end(doc, now) ==
  IF ~assertStarted(doc) THEN Res(BadRequest, doc, FALSE)
  ELSE IF doc.status = ENDED THEN Res(NoErr, doc, FALSE)
  ELSE IF doc.status = NOT_STARTED THEN Res(BadRequest, doc, FALSE)
  ELSE
    LET d == closeOpenIntervals(doc, now) IN
    Res(NoErr,
        [d EXCEPT !.status = ENDED, !.endedAt = now,
                  !.pauseStartedAt = Null, !.lunchStartedAt = Null,
                  !.events = Append(@, Event(EvEND, now))],
        TRUE)

\* ---------------------------------------------------------------- part_020
\* R_push without the assignment of status: the event alone is pushed.
R_push_keepsStatus(doc, st, type, now) ==
  Res(NoErr, [doc EXCEPT !.events = Append(@, Event(type, now))], TRUE)

\* status := st; events.push({type, at: new Date()}); save()
R_push(doc, st, type, now) ==
  Res(NoErr, [doc EXCEPT !.status = st, !.events = Append(@, Event(type, now))], TRUE)

\* start without its idempotence guard: a START is pushed whatever the status.
R_start_noIdempotence(doc, now) ==
  IF doc.status = ENDED THEN R_push(doc, ACTIVE, EvRECONNECT, now)
  ELSE R_push(doc, ACTIVE, EvSTART, now)

R_start(doc, now) ==
  IF doc.status \in {ACTIVE, PAUSED, LUNCH} THEN Res(NoErr, doc, FALSE)
  ELSE IF doc.status = ENDED THEN R_push(doc, ACTIVE, EvRECONNECT, now)
  ELSE R_push(doc, ACTIVE, EvSTART, now)

R_pause(doc, now) ==
  IF doc.status = NOT_STARTED THEN Res(BadRequest, doc, FALSE)
  ELSE IF doc.status = ENDED THEN Res(BadRequest, doc, FALSE)
  ELSE IF doc.status = PAUSED THEN Res(NoErr, doc, FALSE)
  ELSE IF doc.status # ACTIVE THEN Res(BadRequest, doc, FALSE)
  ELSE R_push(doc, PAUSED, EvPAUSE, now)

\* lunch that records the status of a pause.
R_lunch_marksPaused(doc, now) ==
  IF doc.status = NOT_STARTED THEN Res(BadRequest, doc, FALSE)
  ELSE IF doc.status = ENDED THEN Res(BadRequest, doc, FALSE)
  ELSE IF doc.status = LUNCH THEN Res(NoErr, doc, FALSE)
  ELSE IF doc.status # ACTIVE THEN Res(BadRequest, doc, FALSE)
  ELSE R_push(doc, PAUSED, EvLUNCH, now)

R_lunch(doc, now) ==
  IF doc.status = NOT_STARTED THEN Res(BadRequest, doc, FALSE)
  ELSE IF doc.status = ENDED THEN Res(BadRequest, doc, FALSE)
  ELSE IF doc.status = LUNCH THEN Res(NoErr, doc, FALSE)
  ELSE IF doc.status # ACTIVE THEN Res(BadRequest, doc, FALSE)
  ELSE R_push(doc, LUNCH, EvLUNCH, now)

R_setActive(doc, now) ==
  IF doc.status = NOT_STARTED THEN Res(BadRequest, doc, FALSE)
  ELSE IF doc.status = ACTIVE THEN Res(NoErr, doc, FALSE)
  ELSE IF doc.status = ENDED THEN R_push(doc, ACTIVE, EvRECONNECT, now)
  ELSE IF doc.status \notin {PAUSED, LUNCH} THEN Res(BadRequest, doc, FALSE)
  ELSE R_push(doc, ACTIVE, EvRESUME, now)

R_end(doc, now) ==
  IF doc.status = NOT_STARTED THEN Res(BadRequest, doc, FALSE)
  ELSE IF doc.status = ENDED THEN Res(NoErr, doc, FALSE)
  ELSE R_push(doc, ENDED, EvEND, now)

R_reset(doc, now) ==
  IF doc.status = NOT_STARTED THEN R_push(doc, ACTIVE, EvSTART, now)
  ELSE IF doc.status = ENDED THEN R_push(doc, ACTIVE, EvRECONNECT, now)
  ELSE R_push(doc, ACTIVE, EvRESET, now)

\* The synchronous part of handler op of service v on an existing document.
OnDoc(v, op, doc, now) ==
  IF v = "stored" THEN
    CASE op = OpStart -> S_start(doc, now)
      [] op = OpSetActive -> S_setActive(doc, now)
      [] op = OpPause -> S_pause(doc, now)
      [] op = OpLunch -> S_lunch(doc, now)
      [] op = OpEnd -> S_end(doc, now)
  ELSE
    CASE op = OpStart -> R_start(doc, now)
      [] op = OpSetActive -> R_setActive(doc, now)
      [] op = OpPause -> R_pause(doc, now)
      [] op = OpLunch -> R_lunch(doc, now)
      [] op = OpEnd -> R_end(doc, now)
      [] op = OpReset -> R_reset(doc, now)

\* ---------------------------------------------------------------- handlers
\* What a handler leaves: the collection, the failure thrown (or NoErr) and
\* the WorkdayDto returned (NoDto when it threw).
Out(coll, err, dto) == [coll |-> coll, err |-> err, dto |-> dto]

NoDoc == NewWorkday("", Null, "NONE")
DocAt(coll, i) == IF i = 0 THEN NoDoc ELSE coll[i]

\* getToday written over ensureTodayDoc: it creates the document it misses.
getToday_persists(v, coll, u, t) ==
  LET dk == chileDateKey(t)
      i == findOne(coll, u, dk)
      ins == insertOne(coll, NewWorkday(u, dk, NOT_STARTED))
  IN IF i = 0
     THEN Out(ins.coll, NoErr, toDto(v, NewWorkday(u, dk, NOT_STARTED)))
     ELSE Out(coll, NoErr, toDto(v, coll[i]))

\* getToday (part_021) / getTodayByUserId (part_020): findOne().lean(), and a
\* transient NOT_STARTED document when there is none.
getToday(v, coll, u, t) ==
  LET dk == chileDateKey(t)
      i == findOne(coll, u, dk)
  IN IF i = 0
     THEN Out(coll, NoErr, toDto(v, NewWorkday(u, dk, NOT_STARTED)))
     ELSE Out(coll, NoErr, toDto(v, coll[i]))

\* part_020 ensureTodayDoc after findOne found nothing: new Model({userId,
\* dateKey, status: NOT_STARTED, events: []}).save().
ensureTodayDoc(coll, u, dk) == insertOne(coll, NewWorkday(u, dk, NOT_STARTED))

\* The handler from the point where its lookup has resolved: i and doc are
\* the position and the copy of the document the lookup loaded (0, NoDoc when
\* none), coll is the collection at the time of the write, now the instant
\* the handler sampled.
Complete(v, op, coll, u, dk, now, i, doc) ==
  IF i = 0 THEN
    IF v = "stored" /\ op = OpStart THEN
      LET rec == S_created(u, dk, now)
          ins == insertOne(coll, rec)
      IN IF ins.ok THEN Out(ins.coll, NoErr, S_toDto(rec))
         ELSE Out(coll, DuplicateKey, NoDto)
    ELSE Out(coll, NotFound, NoDto)
  ELSE
    LET r == OnDoc(v, op, doc, now) IN
    IF r.err # NoErr THEN Out(coll, r.err, NoDto)
    ELSE IF r.saved THEN Out(save(coll, i, doc, r.doc), NoErr, toDto(v, r.doc))
    ELSE Out(coll, NoErr, toDto(v, r.doc))

\* A whole handler run with nothing interleaved, at instant t.
Handle(v, op, coll, u, t) ==
  IF op = OpGetToday THEN getToday(v, coll, u, t)
  ELSE
    LET dk == chileDateKey(t)
        i == findOne(coll, u, dk)
        e == ensureTodayDoc(coll, u, dk)
    IN IF v = "replay" /\ i = 0 THEN
         IF e.ok THEN Complete(v, op, e.coll, u, dk, t, Len(e.coll), e.coll[Len(e.coll)])
         ELSE Out(coll, DuplicateKey, NoDto)
       ELSE Complete(v, op, coll, u, dk, t, i, DocAt(coll, i))

\* A whole handler run at instant t in which the k-th write it issues is
\* rejected: the promise of create() or save() rejects, nothing after it runs,
\* and whatever the earlier writes stored stays.  A handler that issues fewer
\* than k writes runs as Handle.
HandleFailing(v, op, coll, u, t, k) ==
  IF op = OpGetToday THEN getToday(v, coll, u, t)
  ELSE
    LET dk == chileDateKey(t)
        i == findOne(coll, u, dk)
        e == ensureTodayDoc(coll, u, dk)
    IN IF v = "replay" /\ i = 0 THEN
         IF k = 1 THEN Out(coll, StorageError, NoDto)
         ELSE IF ~e.ok THEN Out(coll, DuplicateKey, NoDto)
         ELSE LET c == Complete(v, op, e.coll, u, dk, t, Len(e.coll), e.coll[Len(e.coll)])
              IN IF k = 2 /\ c.coll # e.coll THEN Out(e.coll, StorageError, NoDto)
                 ELSE c
       ELSE LET c == Complete(v, op, coll, u, dk, t, i, DocAt(coll, i))
            IN IF k = 1 /\ c.coll # coll THEN Out(coll, StorageError, NoDto)
               ELSE c

\* ---------------------------------------------------------------- bulk statuses
\* A string of the request body as its tokens: " " is white space, any other
\* token is a run of characters without white space.
Blank == " "
RECURSIVE trimStart(_)
trimStart(x) ==
  IF x # <<>> /\ Head(x) = Blank THEN trimStart(Tail(x)) ELSE x
RECURSIVE trimEnd(_)
trimEnd(x) ==
  IF x # <<>> /\ x[Len(x)] = Blank THEN trimEnd(SubSeq(x, 1, Len(x) - 1)) ELSE x
trim(x) == trimEnd(trimStart(x))

\* The user id a trimmed string of one token denotes ("" for the empty one).
IdOf(x) == IF x = <<>> THEN "" ELSE x[1]

\* userIds.map((x) => String(x).trim()).filter(Boolean)
RECURSIVE normalize(_)
normalize(userIds) ==
  IF userIds = <<>> THEN <<>>
  ELSE LET id == IdOf(trim(Head(userIds))) IN
       IF id = "" THEN normalize(Tail(userIds))
       ELSE <<id>> \o normalize(Tail(userIds))

Range(q) == {q[j] : j \in DOMAIN q}

\* find({ dateKey, userId: { $in: ids } }) over every day.
find_anyDay(coll, dk, ids) ==
  SelectSeq(coll, LAMBDA d : d.userId \in Range(ids))

\* find({ dateKey, userId: { $in: ids } }).lean()
find(coll, dk, ids) ==
  SelectSeq(coll, LAMBDA d : d.dateKey = dk /\ d.userId \in Range(ids))

\* Map.prototype.set
MapSet(m, k, val) ==
  [x \in (DOMAIN m) \cup {k} |-> IF x = k THEN val ELSE m[x]]

\* for (const d of docs) map.set(d.userId, this.toDto(d))
RECURSIVE FromDocs(_, _)
FromDocs(v, docs) ==
  IF docs = <<>> THEN <<>>
  ELSE LET d == docs[Len(docs)] IN
       MapSet(FromDocs(v, SubSeq(docs, 1, Len(docs) - 1)), d.userId, toDto(v, d))

\* for (const id of normalized) if (!map.has(id)) map.set(id, NOT_STARTED dto)
RECURSIVE FillMissing(_, _, _, _)
FillMissing(v, m, ids, dk) ==
  IF ids = <<>> THEN m
  ELSE LET id == Head(ids)
           m2 == IF id \in DOMAIN m THEN m
                 ELSE MapSet(m, id, toDto(v, NewWorkday(id, dk, NOT_STARTED)))
       IN FillMissing(v, m2, Tail(ids), dk)

\* getTodayStatuses(userIds): the answer, the collection after it and the
\* number of queries it sent.
getTodayStatuses(v, coll, userIds, t) ==
  LET normalized == normalize(userIds)
      dk == chileDateKey(t)
      docs == find(coll, dk, normalized)
  IN IF normalized = <<>>
     THEN [coll |-> coll, err |-> NoErr, dto |-> <<>>, queries |-> 0]
     ELSE [coll |-> coll, err |-> NoErr,
           dto |-> FillMissing(v, FromDocs(v, docs), normalized, dk),
           queries |-> 1]

\* ---------------------------------------------------------------- auth
Unauthorized == "UnauthorizedException"
NoHash == <<>>
NoToken == [sub |-> "", iat |-> Null, sig |-> "none"]

\* jwt.signAsync({ sub, email }, { secret: jwt.refreshSecret, expiresIn }):
\* the compact serialisation of header, payload {sub, email, iat, exp} and
\* signature; iat is the clock in seconds, exp follows from it, and email is
\* the one of the user sub names.
issueTokens(userId, t) == [sub |-> userId, iat |-> t, sig |-> "refreshSecret"]

\* jwt.verifyAsync(token, { secret: jwt.refreshSecret }) within the token's
\* lifetime.
verifyRefreshToken(token) == token.sig = "refreshSecret"

\* The bytes bcrypt reads of a value: its first 72.  The serialised header
\* and its dot take 37 of them; the 35 left decode to 26 bytes of payload,
\* which end inside {"sub":"<id>","email":"<email>", before "iat".
bcryptInput(token) == [sub |-> token.sub]

\* CryptoUtil.hash (the salt is carried in the hash and plays no part in
\* matching).
CryptoUtil_hash(value) == <<"bcrypt", bcryptInput(value)>>

\* CryptoUtil.compare
CryptoUtil_compare(value, hash) == hash = <<"bcrypt", bcryptInput(value)>>

\* No user has logged in.
NoAuth ==
  [hash |-> [u \in Users |-> NoHash],
   latest |-> [u \in Users |-> NoToken],
   issued |-> {}]

\* storeRefreshTokenHash after issueTokens: the user's refreshTokenHash, the
\* token last issued to the user and the tokens clients hold.
storeRefreshTokenHash(a, userId, token) ==
  [hash |-> [a.hash EXCEPT ![userId] = CryptoUtil_hash(token)],
   latest |-> [a.latest EXCEPT ![userId] = token],
   issued |-> a.issued \cup {token}]

\* AuthService.refresh(refreshToken) at instant t.
refresh(a, refreshToken, t) ==
  IF ~verifyRefreshToken(refreshToken) THEN [auth |-> a, err |-> Unauthorized, token |-> NoToken]
  ELSE IF a.hash[refreshToken.sub] = NoHash THEN [auth |-> a, err |-> Unauthorized, token |-> NoToken]
  ELSE IF ~CryptoUtil_compare(refreshToken, a.hash[refreshToken.sub])
    THEN [auth |-> a, err |-> Unauthorized, token |-> NoToken]
  ELSE LET tokens == issueTokens(refreshToken.sub, t) IN
       [auth |-> storeRefreshTokenHash(a, refreshToken.sub, tokens),
        err |-> NoErr, token |-> tokens]

\* AuthService.logout(userId)
logout(a, userId) == [a EXCEPT !.hash[userId] = NoHash]

\* ---------------------------------------------------------------- side by side
\* The service that is not wired.
Other(v) == IF v = "stored" THEN "replay" ELSE "stored"

\* The other service before any call: an empty collection, no call rejected.
NoTwin == [store |-> <<>>, rejected |-> FALSE, err |-> NoErr, dto |-> NoDto]

\* ---------------------------------------------------------------- calls gateway
SocketIds == {1, 2}
UsersG == {"u1", "u2"}
NoUser == ""

\* The handshake's token: none, or a JWT naming a user, signed with
\* jwt.accessSecret or not.
NoBearer == [sub |-> NoUser, sig |-> "none"]
Bearers == {NoBearer} \cup [sub : UsersG, sig : {"accessSecret", "other"}]

\* extractBearerToken: null when the handshake carries no token.
extractBearerToken(handshake) == handshake # NoBearer

\* verifyAccessToken: jwt.verifyAsync(token, { secret: jwt.accessSecret }).
verifyAccessToken(token) == token.sig = "accessSecret"

\* A socket: not connected, or connected with handleConnection awaiting
\* verifyAccessToken ("verifying"), or past it ("open"), or disconnected by
\* the server; userId is client.data.userId, room the room it joined.
NoSockets ==
  [s \in SocketIds |->
     [pc |-> "closed", token |-> NoBearer, userId |-> NoUser, room |-> NoUser]]

\* handleConnection up to its await.
handleConnection(handshake) ==
  IF ~extractBearerToken(handshake)
  THEN [pc |-> "disconnected", token |-> handshake, userId |-> NoUser, room |-> NoUser]
  ELSE [pc |-> "verifying", token |-> handshake, userId |-> NoUser, room |-> NoUser]

\* handleConnection from the point where verifyAccessToken settles.
handleVerified(sock) ==
  IF verifyAccessToken(sock.token)
  THEN [sock EXCEPT !.pc = "open", !.userId = sock.token.sub, !.room = sock.token.sub]
  ELSE [sock EXCEPT !.pc = "disconnected"]

\* assertAuthenticated: passes when client.data.userId is set.
assertAuthenticated(sock) == sock.userId # NoUser

\* assertCallerIdentity without the comparison of ids.
assertCallerIdentity_authOnly(sock, fromUserId) == assertAuthenticated(sock)

\* assertCallerIdentity
assertCallerIdentity(sock, fromUserId) ==
  /\ assertAuthenticated(sock)
  /\ sock.userId = fromUserId

\* The messages handled.
IdentityEvents == {"call:start", "call:accept", "call:reject", "call:end"}
RelayEvents == {"call:sdp", "call:ice"}

\* A message handler: the room server.to(...).emit(...) addresses, if it
\* gets that far.
handleMessage(sock, event, payload) ==
  IF event \in IdentityEvents /\ ~assertCallerIdentity(sock, payload.fromUserId)
    THEN [forwarded |-> FALSE, room |-> NoUser]
  ELSE IF event \in RelayEvents /\ ~assertAuthenticated(sock)
    THEN [forwarded |-> FALSE, room |-> NoUser]
  ELSE [forwarded |-> TRUE, room |-> payload.toUserId]

\* ---------------------------------------------------------------- state
VARIABLES
  variant,  \* which WorkdayService is wired
  store,    \* the Workday collection, in insertion order
  now,      \* the clock
  last,     \* the last handler run: what it was given and what it answered
  reqs,     \* requests in flight, each between two awaits
  auth,     \* AuthService: the users' refreshTokenHash and the tokens issued
  twin,     \* the other WorkdayService, given the same calls
  gateway   \* CallsGateway: the sockets, each with its handshake and data

vars == <<variant, store, now, last, reqs, auth, twin, gateway>>

\* What the workday handlers leave alone.
others == <<auth, twin, gateway>>

RECURSIVE SumEvents(_)
SumEvents(coll) ==
  IF coll = <<>> THEN 0
  ELSE Len(coll[Len(coll)].events) + SumEvents(SubSeq(coll, 1, Len(coll) - 1))

WithinBounds(coll) == Len(coll) <= MaxRecords /\ SumEvents(coll) <= MaxEvents
WithinCap(coll, cap) == Len(coll) <= MaxRecords /\ SumEvents(coll) <= cap
WithinBoundsC(coll) == WithinCap(coll, MaxEventsC)

\* A request slot: idle, or a handler between two awaits with its locals, or
\* a handler that has answered.
IdleReq == [pc |-> "idle"]
FoundReq(op, u, dk, t, i, doc) ==
  [pc |-> "found", op |-> op, user |-> u, dk |-> dk, now |-> t, i |-> i, doc |-> doc]
DoneReq(q, err, dto) ==
  [pc |-> "done", op |-> q.op, user |-> q.user, dk |-> q.dk, err |-> err, dto |-> dto]

\* No request served yet.
NoLast == [op |-> "none"]

Init ==
  /\ variant \in Variants
  /\ store = <<>>
  /\ now = 0
  /\ last = NoLast
  /\ reqs = [r \in ReqIds |-> IdleReq]
  /\ auth = NoAuth
  /\ twin = NoTwin
  /\ gateway = NoSockets

\* The clock advances (Date is read from the wall clock whenever sampled).
Tick ==
  /\ now < MaxTime
  /\ now' = now + 1
  /\ UNCHANGED <<variant, store, last, reqs, others>>

\* One request served from its first line to its return, no other request
\* in flight.
DoWithin(op, u, cap) ==
  /\ \A r \in ReqIds : reqs[r].pc = "idle"
  /\ LET out == Handle(variant, op, store, u, now) IN
       /\ WithinCap(out.coll, cap)
       /\ store' = out.coll
       /\ last' = [op |-> op, user |-> u, err |-> out.err, dto |-> out.dto,
                   preDto |-> getToday(variant, store, u, now).dto,
                   post |-> getToday(variant, out.coll, u, now).dto.status,
                   found |-> findOne(store, u, chileDateKey(now)) # 0,
                   wrote |-> out.coll # store]
  /\ UNCHANGED <<variant, now, reqs, others>>

Do(op, u) == DoWithin(op, u, MaxEvents)

\* The endpoints of WorkdayController (reset is part_020's recovery action).
GetToday == \E u \in Users : OpGetToday \in OpsOf(variant) /\ Do(OpGetToday, u)
Start == \E u \in Users : OpStart \in OpsOf(variant) /\ Do(OpStart, u)
SetActive == \E u \in Users : OpSetActive \in OpsOf(variant) /\ Do(OpSetActive, u)
Pause == \E u \in Users : OpPause \in OpsOf(variant) /\ Do(OpPause, u)
Lunch == \E u \in Users : OpLunch \in OpsOf(variant) /\ Do(OpLunch, u)
End == \E u \in Users : OpEnd \in OpsOf(variant) /\ Do(OpEnd, u)
Reset == \E u \in Users : OpReset \in OpsOf(variant) /\ Do(OpReset, u)

Next ==
  \/ Tick
  \/ GetToday
  \/ Start
  \/ SetActive
  \/ Pause
  \/ Lunch
  \/ End
  \/ Reset

Spec == Init /\ [][Next]_vars

\* ---------------------------------------------------------------- round trip
\* One client working through start, pause, setActive, lunch, end, start
\* within one day: the call that follows the one last answered (none after an
\* error or after the second start).
TripNext(l) ==
  IF l = NoLast THEN OpStart
  ELSE IF l.err # NoErr THEN "stop"
  ELSE CASE l.op = OpStart /\ l.preDto.status = NOT_STARTED -> OpPause
         [] l.op = OpPause -> OpSetActive
         [] l.op = OpSetActive -> OpLunch
         [] l.op = OpLunch -> OpEnd
         [] l.op = OpEnd -> OpStart
         [] OTHER -> "stop"

TickR ==
  /\ now + 1 < DayLen
  /\ now' = now + 1
  /\ UNCHANGED <<variant, store, last, reqs, others>>

StepR ==
  \E u \in Users :
    /\ TripNext(last) \in OpsOf(variant)
    /\ DoWithin(TripNext(last), u, MaxEventsR)

NextR ==
  \/ TickR
  \/ StepR

SpecR == Init /\ [][NextR]_vars

\* ---------------------------------------------------------------- bulk statuses
\* Two users work their days while the presence list is asked for.
UsersB == {"u1", "u2"}
RawIds == {<<>>, <<"u1">>, <<Blank, "u2", Blank>>}
IdLists == UNION {[1..n -> RawIds] : n \in 0..MaxIds}
OpGetTodayStatuses == "getTodayStatuses"

GetTodayStatuses(userIds) ==
  /\ variant = "replay"
  /\ \A r \in ReqIds : reqs[r].pc = "idle"
  /\ LET out == getTodayStatuses(variant, store, userIds, now) IN
       /\ store' = out.coll
       /\ last' = [op |-> OpGetTodayStatuses, user |-> "", err |-> out.err,
                   dto |-> out.dto, ids |-> userIds, queries |-> out.queries,
                   wrote |-> out.coll # store]
  /\ UNCHANGED <<variant, now, reqs, others>>

\* part_020 comes up shortly before midnight in America/Santiago.
InitB ==
  /\ variant = "replay"
  /\ store = <<>>
  /\ now = DayLen - EveBefore
  /\ last = NoLast
  /\ reqs = [r \in ReqIds |-> IdleReq]
  /\ auth = NoAuth
  /\ twin = NoTwin
  /\ gateway = NoSockets

\* The clock advances into the next day.
TickB ==
  /\ now < DayLen - EveBefore + MaxTicksC
  /\ now' = now + 1
  /\ UNCHANGED <<variant, store, last, reqs, others>>

NextB ==
  \/ TickB
  \/ \E op \in OpsOf(variant), u \in UsersB : DoWithin(op, u, MaxEventsB)
  \/ \E userIds \in IdLists : GetTodayStatuses(userIds)

SpecB == InitB /\ [][NextB]_vars

\* ---------------------------------------------------------------- auth
OpLogin == "login"
OpRefresh == "refresh"
OpLogout == "logout"

\* register or login with valid credentials: issueTokens, then
\* storeRefreshTokenHash.
Login(u) ==
  /\ LET tokens == issueTokens(u, now) IN
       /\ auth' = storeRefreshTokenHash(auth, u, tokens)
       /\ last' = [op |-> OpLogin, user |-> u, err |-> NoErr, token |-> tokens,
                   presented |-> NoToken]
  /\ UNCHANGED <<variant, store, now, reqs, twin, gateway>>

\* POST /auth/refresh with a token a client holds or a forged one.
Refresh(refreshToken) ==
  /\ LET out == refresh(auth, refreshToken, now) IN
       /\ auth' = out.auth
       /\ last' = [op |-> OpRefresh, user |-> refreshToken.sub, err |-> out.err,
                   token |-> out.token, presented |-> refreshToken]
  /\ UNCHANGED <<variant, store, now, reqs, twin, gateway>>

Logout(u) ==
  /\ auth' = logout(auth, u)
  /\ last' = [op |-> OpLogout, user |-> u, err |-> NoErr, token |-> NoToken,
              presented |-> NoToken]
  /\ UNCHANGED <<variant, store, now, reqs, twin, gateway>>

TickA ==
  /\ now < MaxTicksA
  /\ now' = now + 1
  /\ UNCHANGED <<variant, store, last, reqs, auth, twin, gateway>>

\* Refresh is called with a token a client holds, or with one that was not
\* signed with jwt.refreshSecret.
NextA ==
  \/ TickA
  \/ \E u \in Users : Login(u)
  \/ \E refreshToken \in auth.issued \cup
          {[issueTokens(u, now) EXCEPT !.sig = "other"] : u \in Users} :
       Refresh(refreshToken)
  \/ \E u \in Users : Logout(u)

SpecA == Init /\ [][NextA]_vars

\* ---------------------------------------------------------------- side by side
\* The same call given to both services, each on its own collection, for as
\* long as neither has rejected one.
DoBoth(op, u) ==
  /\ \A r \in ReqIds : reqs[r].pc = "idle"
  /\ ~twin.rejected
  /\ LET out == Handle(variant, op, store, u, now)
         o2 == Handle(Other(variant), op, twin.store, u, now)
     IN /\ WithinCap(out.coll, MaxEventsT)
        /\ WithinCap(o2.coll, MaxEventsT)
        /\ store' = out.coll
        /\ twin' = [store |-> o2.coll,
                    rejected |-> out.err # NoErr \/ o2.err # NoErr,
                    err |-> o2.err, dto |-> o2.dto]
        /\ last' = [op |-> op, user |-> u, err |-> out.err, dto |-> out.dto,
                    preDto |-> getToday(variant, store, u, now).dto,
                    post |-> getToday(variant, out.coll, u, now).dto.status,
                    found |-> findOne(store, u, chileDateKey(now)) # 0,
                    wrote |-> out.coll # store]
  /\ UNCHANGED <<variant, now, reqs, auth, gateway>>

TickT ==
  /\ now + 1 < DayLen
  /\ now' = now + 1
  /\ UNCHANGED <<variant, store, last, reqs, auth, twin, gateway>>

NextT ==
  \/ TickT
  \/ \E op \in {OpStart, OpSetActive, OpPause, OpLunch, OpEnd}, u \in Users :
       DoBoth(op, u)

SpecT == Init /\ [][NextT]_vars

\* ---------------------------------------------------------------- calls gateway
\* A client connects with a handshake.
Connect(s, handshake) ==
  /\ gateway[s].pc \in {"closed", "disconnected"}
  /\ gateway' = [gateway EXCEPT ![s] = handleConnection(handshake)]
  /\ UNCHANGED <<variant, store, now, last, reqs, auth, twin>>

\* verifyAccessToken settles.
Verified(s) ==
  /\ gateway[s].pc = "verifying"
  /\ gateway' = [gateway EXCEPT ![s] = handleVerified(gateway[s])]
  /\ UNCHANGED <<variant, store, now, last, reqs, auth, twin>>

\* A message of a connected socket reaches its handler, before or after
\* verifyAccessToken has settled.
Message(s, event, payload) ==
  /\ gateway[s].pc \in {"verifying", "open"}
  /\ LET out == handleMessage(gateway[s], event, payload) IN
       last' = [op |-> event, socket |-> s, payload |-> payload, err |-> NoErr,
                forwarded |-> out.forwarded, room |-> out.room]
  /\ UNCHANGED <<variant, store, now, reqs, auth, twin, gateway>>

\* The client goes away.
Disconnect(s) ==
  /\ gateway[s].pc \in {"verifying", "open"}
  /\ gateway' = [gateway EXCEPT ![s] = [@ EXCEPT !.pc = "disconnected"]]
  /\ UNCHANGED <<variant, store, now, last, reqs, auth, twin>>

NextG ==
  \/ \E s \in SocketIds, handshake \in Bearers : Connect(s, handshake)
  \/ \E s \in SocketIds : Verified(s)
  \/ \E s \in SocketIds, event \in IdentityEvents \cup RelayEvents,
        payload \in [fromUserId : UsersG, toUserId : UsersG] :
       Message(s, event, payload)
  \/ \E s \in SocketIds : Disconnect(s)

SpecG == Init /\ [][NextG]_vars

\* ---------------------------------------------------------------- failing writes
\* An operation whose k-th write fails.
DoFailing(op, u, k) ==
  /\ \A r \in ReqIds : reqs[r].pc = "idle"
  /\ LET out == HandleFailing(variant, op, store, u, now, k) IN
       /\ out.err = StorageError
       /\ WithinCap(out.coll, MaxEventsF)
       /\ store' = out.coll
       /\ last' = [op |-> op, user |-> u, err |-> out.err, dto |-> out.dto,
                   preDto |-> getToday(variant, store, u, now).dto,
                   post |-> getToday(variant, out.coll, u, now).dto.status,
                   found |-> findOne(store, u, chileDateKey(now)) # 0,
                   wrote |-> out.coll # store]
  /\ UNCHANGED <<variant, now, reqs, others>>

NextF ==
  \/ TickR
  \/ \E op \in OpsOf(variant), u \in Users : DoWithin(op, u, MaxEventsF)
  \/ \E op \in OpsOf(variant), u \in Users, k \in 1..MaxWrites :
       DoFailing(op, u, k)

SpecF == Init /\ [][NextF]_vars

\* ---------------------------------------------------------------- requests
\* Requests served concurrently.  A handler runs from one await to the next
\* without interruption (one event loop); the awaits are the lookup, the
\* insert of ensureTodayDoc and the final create()/save().

\* The handler's first line up to the resolution of its findOne: chileDateKey()
\* is evaluated, part_021's start also samples now, and the document is loaded.
\* A request takes the lowest free slot.  getToday writes nothing and is left
\* to the sequential specification.
Call(r, op, u) ==
  /\ reqs[r].pc = "idle"
  /\ \A q \in ReqIds : q < r => reqs[q].pc # "idle"
  /\ op \in OpsOf(variant) \ {OpGetToday}
  /\ LET dk == chileDateKey(now)
         i == findOne(store, u, dk)
     IN reqs' = [reqs EXCEPT ![r] =
                   FoundReq(op, u, dk,
                            IF variant = "stored" /\ op = OpStart THEN now ELSE Null,
                            i, DocAt(store, i))]
  /\ UNCHANGED <<variant, store, now, last, others>>

\* part_020 ensureTodayDoc found nothing: created.save() reaches the store
\* (cap bounds the events the collection holds).
EnsureWithin(r, cap) ==
  /\ variant = "replay"
  /\ reqs[r].pc = "found"
  /\ reqs[r].i = 0
  /\ LET e == ensureTodayDoc(store, reqs[r].user, reqs[r].dk) IN
       /\ WithinCap(e.coll, cap)
       /\ store' = e.coll
       /\ reqs' = [reqs EXCEPT ![r] =
                     IF e.ok
                     THEN [@ EXCEPT !.i = Len(e.coll), !.doc = e.coll[Len(e.coll)]]
                     ELSE DoneReq(reqs[r], DuplicateKey, NoDto)]
  /\ UNCHANGED <<variant, now, last, others>>

Ensure(r) == EnsureWithin(r, MaxEventsC)

\* The rest of the handler: checks, mutation of the loaded document, the
\* create() or save() reaching the store, and the answer.
FinishWithin(r, cap) ==
  /\ reqs[r].pc = "found"
  /\ ~(variant = "replay" /\ reqs[r].i = 0)
  /\ LET q == reqs[r]
         t == IF variant = "stored" /\ q.op = OpStart THEN q.now ELSE now
         out == Complete(variant, q.op, store, q.user, q.dk, t, q.i, q.doc)
     IN /\ WithinCap(out.coll, cap)
        /\ store' = out.coll
        /\ reqs' = [reqs EXCEPT ![r] = DoneReq(q, out.err, out.dto)]
  /\ UNCHANGED <<variant, now, last, others>>

Finish(r) == FinishWithin(r, MaxEventsC)

\* The answer is sent; the slot serves the next request.
Return(r) ==
  /\ reqs[r].pc = "done"
  /\ reqs' = [reqs EXCEPT ![r] = IdleReq]
  /\ UNCHANGED <<variant, store, now, last, others>>

\* The service comes up shortly before midnight in America/Santiago.
InitC ==
  /\ variant \in Variants
  /\ store = <<>>
  /\ now = DayLen - EveBefore
  /\ last = NoLast
  /\ reqs = [r \in ReqIds |-> IdleReq]
  /\ auth = NoAuth
  /\ twin = NoTwin
  /\ gateway = NoSockets

TickC ==
  /\ now < DayLen - EveBefore + MaxTicksC
  /\ now' = now + 1
  /\ UNCHANGED <<variant, store, last, reqs, others>>

Calls == \E r \in ReqIds, op \in OpsOf(variant), u \in Users : Call(r, op, u)
Ensures == \E r \in ReqIds : Ensure(r)
Finishes == \E r \in ReqIds : Finish(r)
Returns == \E r \in ReqIds : Return(r)

NextC ==
  \/ TickC
  \/ Calls
  \/ Ensures
  \/ Finishes
  \/ Returns

SpecC == InitC /\ [][NextC]_vars

\* ---------------------------------------------------------------- requests, one day
\* Requests served concurrently within one day, on a record with a history:
\* the clock starts at 0 and makes MaxTicksD ticks, the record holds up to
\* MaxEventsD events.
TickD ==
  /\ now < MaxTicksD
  /\ now' = now + 1
  /\ UNCHANGED <<variant, store, last, reqs, others>>

EnsuresD == \E r \in ReqIds : EnsureWithin(r, MaxEventsD)
FinishesD == \E r \in ReqIds : FinishWithin(r, MaxEventsD)

NextD ==
  \/ TickD
  \/ Calls
  \/ EnsuresD
  \/ FinishesD
  \/ Returns

SpecD == Init /\ [][NextD]_vars

\* ---------------------------------------------------------------- claims
\* The (status, action) pairs the transition table defines as no-ops.
IdempotentPairs ==
  {<<ACTIVE, OpStart>>, <<PAUSED, OpStart>>, <<LUNCH, OpStart>>,
   <<ACTIVE, OpSetActive>>, <<PAUSED, OpPause>>, <<LUNCH, OpLunch>>,
   <<ENDED, OpEnd>>}

\* The (status, action) pairs the transition table rejects.
IllegalPairs ==
  {<<NOT_STARTED, OpSetActive>>, <<NOT_STARTED, OpEnd>>,
   <<NOT_STARTED, OpPause>>, <<ENDED, OpPause>>,
   <<NOT_STARTED, OpLunch>>, <<ENDED, OpLunch>>}

TableOps == {OpStart, OpSetActive, OpPause, OpLunch, OpEnd}

BothOpen(dto) == dto.pauseStartedAt # NullIso /\ dto.lunchStartedAt # NullIso

\* C1: in both services, no WorkdayDto returned by an operation, and none a
\* following getToday returns, has pauseStartedAt and lunchStartedAt both
\* non-null.
C1_IntervalsExclusive ==
  /\ last # NoLast => ~BothOpen(last.dto)
  /\ \A u \in Users : ~BothOpen(getToday(variant, store, u, now).dto)

\* C2: operation after operation, each record's totalPauseMinutes and
\* totalLunchMinutes never decrease, and one changes only in an operation that
\* leaves the status whose interval it accumulates.
C2_TotalsMonotone ==
  [][\A i \in 1..Len(store) :
       LET a == toDto(variant, store[i])
           b == toDto(variant, store'[i])
       IN /\ b.totalPauseMinutes >= a.totalPauseMinutes
          /\ b.totalLunchMinutes >= a.totalLunchMinutes
          /\ b.totalPauseMinutes # a.totalPauseMinutes
               => a.status = PAUSED /\ b.status # PAUSED
          /\ b.totalLunchMinutes # a.totalLunchMinutes
               => a.status = LUNCH /\ b.status # LUNCH]_vars

\* C2 witness: an operation left PAUSED and the returned totalPauseMinutes is
\* larger than the one reported before it.
C2_Witness ==
  /\ last # NoLast
  /\ last.preDto.status = PAUSED
  /\ last.err = NoErr
  /\ last.dto.status # PAUSED
  /\ last.dto.totalPauseMinutes > last.preDto.totalPauseMinutes

\* C3: every record the stored-field service reaches has stored fields equal
\* to what the replay projection computes from its events.
C3_ReplayAgreesWithStored ==
  variant = "stored" =>
    \A i \in 1..Len(store) :
      LET a == S_toDto(store[i])
          b == R_toDto(store[i])
      IN /\ a.startedAt = b.startedAt
         /\ a.endedAt = b.endedAt
         /\ a.pauseStartedAt = b.pauseStartedAt
         /\ a.lunchStartedAt = b.lunchStartedAt
         /\ a.totalPauseMinutes = b.totalPauseMinutes
         /\ a.totalLunchMinutes = b.totalLunchMinutes

\* C4: a pause, lunch, setActive or end that fails leaves the collection as
\* it was; no record is created.
C4_RejectedWritesNothing ==
  (last.op \in {OpPause, OpLunch, OpSetActive, OpEnd} /\ last.err # NoErr)
    => ~last.wrote

\* C5: among start/setActive/pause/lunch/end, exactly the illegal pairs of
\* the transition table are rejected, and a rejection leaves status unchanged.
C5_ExactlyIllegalRejected ==
  last.op \in TableOps =>
    /\ (last.err # NoErr) <=> (<<last.preDto.status, last.op>> \in IllegalPairs)
    /\ last.err # NoErr => last.post = last.preDto.status

\* C6: a no-op action appends no event, leaves the collection unchanged and
\* returns the projection getToday returned immediately before.
C6_NoOpReturnsSameProjection ==
  (last # NoLast /\ <<last.preDto.status, last.op>> \in IdempotentPairs) =>
    /\ ~last.wrote
    /\ last.dto = last.preDto

\* C7: a no-op action never raises.
C7_NoOpNeverRaises ==
  (last # NoLast /\ <<last.preDto.status, last.op>> \in IdempotentPairs)
    => last.err = NoErr

\* C8: getToday for a user without a record today returns NOT_STARTED with
\* no events and writes nothing.
C8_GetTodayTransient ==
  (last.op = OpGetToday /\ ~last.found) =>
    /\ last.err = NoErr
    /\ last.dto.status = NOT_STARTED
    /\ last.dto.events = <<>>
    /\ ~last.wrote
    /\ last.post = NOT_STARTED

\* C8 witness: getToday has run for a user with no record and the collection
\* still holds none for that day.
C8_Witness ==
  /\ last.op = OpGetToday
  /\ ~last.found
  /\ last.dto.status = NOT_STARTED
  /\ now > 0
  /\ findOne(store, last.user, last.dto.dateKey) = 0

\* ---------------------------------------------------------------- claims, intervals
\* The instant an ISO string of a DTO renders (Null for null).
IsoTime(iso) == IF iso = NullIso THEN Null ELSE iso[2]

\* floor((to - from) / 60000) clamped to at least 0, from the instant a DTO
\* reports as the start of the open interval.
ElapsedMinutes(iso, to) == Max(0, (to - IsoTime(iso)) \div MinuteUnits)

\* C11: pause from LUNCH and lunch from PAUSED are accepted; the answer has
\* the new status, the interval left credited with its elapsed minutes and
\* its start null, and the start of the interval entered set.
C11_DirectSwitchCredits ==
  [][(last' # last /\ <<last'.preDto.status, last'.op>>
                         \in {<<LUNCH, OpPause>>, <<PAUSED, OpLunch>>}) =>
       LET pre == last'.preDto
           dto == last'.dto
       IN /\ last'.err = NoErr
          /\ last'.op = OpPause =>
               /\ dto.status = PAUSED
               /\ dto.totalLunchMinutes
                    = pre.totalLunchMinutes + ElapsedMinutes(pre.lunchStartedAt, now)
               /\ dto.lunchStartedAt = NullIso
               /\ dto.pauseStartedAt # NullIso
          /\ last'.op = OpLunch =>
               /\ dto.status = LUNCH
               /\ dto.totalPauseMinutes
                    = pre.totalPauseMinutes + ElapsedMinutes(pre.pauseStartedAt, now)
               /\ dto.pauseStartedAt = NullIso
               /\ dto.lunchStartedAt # NullIso]_vars

\* The open interval the DTO reports has lasted a whole number of minutes at
\* instant t.
WholeMinutes(iso, t) == (t - IsoTime(iso)) % MinuteUnits = 0

\* C12: a setActive that succeeds from PAUSED after d whole minutes answers
\* status ACTIVE, totalPauseMinutes larger by exactly d and pauseStartedAt
\* null; the same from LUNCH with totalLunchMinutes and lunchStartedAt.
C12_ResumeClosesInterval ==
  [][(last' # last /\ last'.op = OpSetActive /\ last'.err = NoErr) =>
       LET pre == last'.preDto
           dto == last'.dto
       IN /\ (pre.status = PAUSED /\ WholeMinutes(pre.pauseStartedAt, now)) =>
               /\ dto.status = ACTIVE
               /\ dto.totalPauseMinutes
                    = pre.totalPauseMinutes + ElapsedMinutes(pre.pauseStartedAt, now)
               /\ dto.pauseStartedAt = NullIso
          /\ (pre.status = LUNCH /\ WholeMinutes(pre.lunchStartedAt, now)) =>
               /\ dto.status = ACTIVE
               /\ dto.totalLunchMinutes
                    = pre.totalLunchMinutes + ElapsedMinutes(pre.lunchStartedAt, now)
               /\ dto.lunchStartedAt = NullIso]_vars

\* C13: whenever an operation closes an open pause or lunch interval, the
\* minutes it adds to the total are floor((now - start) / 60000), at least 0,
\* whether or not the interval is a whole number of minutes.
C13_CreditIsFloor ==
  [][(last' # last /\ last'.err = NoErr) =>
       LET pre == last'.preDto
           dto == last'.dto
       IN /\ (pre.status = PAUSED /\ dto.status # PAUSED) =>
               dto.totalPauseMinutes - pre.totalPauseMinutes
                 = ElapsedMinutes(pre.pauseStartedAt, now)
          /\ (pre.status = LUNCH /\ dto.status # LUNCH) =>
               dto.totalLunchMinutes - pre.totalLunchMinutes
                 = ElapsedMinutes(pre.lunchStartedAt, now)]_vars

\* The events of dto are those of pre followed by one event of the given type.
AppendsOne(pre, dto, type) ==
  /\ Len(dto.events) = Len(pre.events) + 1
  /\ SubSeq(dto.events, 1, Len(pre.events)) = pre.events
  /\ dto.events[Len(dto.events)].type = type

\* C14: end from ACTIVE, PAUSED or LUNCH succeeds with status ENDED, endedAt
\* the instant of the call, the open interval credited, exactly one END event
\* appended, and pauseStartedAt and lunchStartedAt both null in the answer.
C14_EndClosesDay ==
  [][(last' # last /\ last'.op = OpEnd
        /\ last'.preDto.status \in {ACTIVE, PAUSED, LUNCH}) =>
       LET pre == last'.preDto
           dto == last'.dto
       IN /\ last'.err = NoErr
          /\ dto.status = ENDED
          /\ dto.endedAt = toISOString(now)
          /\ pre.status = PAUSED =>
               dto.totalPauseMinutes
                 >= pre.totalPauseMinutes + ElapsedMinutes(pre.pauseStartedAt, now)
          /\ pre.status = LUNCH =>
               dto.totalLunchMinutes
                 >= pre.totalLunchMinutes + ElapsedMinutes(pre.lunchStartedAt, now)
          /\ AppendsOne(pre, dto, EvEND)
          /\ dto.pauseStartedAt = NullIso
          /\ dto.lunchStartedAt = NullIso]_vars

\* C15: setActive from ENDED succeeds with status ACTIVE, appends exactly one
\* RECONNECT event and leaves both totals as they were.
C15_ReconnectFromEnded ==
  [][(last' # last /\ last'.op = OpSetActive /\ last'.preDto.status = ENDED) =>
       LET pre == last'.preDto
           dto == last'.dto
       IN /\ last'.err = NoErr
          /\ dto.status = ACTIVE
          /\ AppendsOne(pre, dto, EvRECONNECT)
          /\ dto.totalPauseMinutes = pre.totalPauseMinutes
          /\ dto.totalLunchMinutes = pre.totalLunchMinutes]_vars

\* C16: reset succeeds from every status and answers ACTIVE with exactly one
\* event appended (START from NOT_STARTED, RECONNECT from ENDED, RESET
\* otherwise), no interval open, the interval that was open credited, and
\* startedAt non-null.
C16_ResetAlwaysActive ==
  [][(last' # last /\ last'.op = OpReset) =>
       LET pre == last'.preDto
           dto == last'.dto
       IN /\ last'.err = NoErr
          /\ dto.status = ACTIVE
          /\ AppendsOne(pre, dto,
                        IF pre.status = NOT_STARTED THEN EvSTART
                        ELSE IF pre.status = ENDED THEN EvRECONNECT
                        ELSE EvRESET)
          /\ dto.pauseStartedAt = NullIso
          /\ dto.lunchStartedAt = NullIso
          /\ pre.status = PAUSED =>
               dto.totalPauseMinutes
                 = pre.totalPauseMinutes + ElapsedMinutes(pre.pauseStartedAt, now)
          /\ pre.status = LUNCH =>
               dto.totalLunchMinutes
                 = pre.totalLunchMinutes + ElapsedMinutes(pre.lunchStartedAt, now)
          /\ dto.startedAt # NullIso]_vars

\* ---------------------------------------------------------------- claims, events
\* The status the last event of a log stands for.
StatusOfLast(events) ==
  IF events = <<>> THEN NOT_STARTED
  ELSE LET type == events[Len(events)].type
       IN CASE type \in {EvSTART, EvRESUME, EvRECONNECT, EvRESET} -> ACTIVE
            [] type = EvPAUSE -> PAUSED
            [] type = EvLUNCH -> LUNCH
            [] type = EvEND -> ENDED

\* C17: with operations run one after another, the status of every stored
\* record is the one its last event stands for (NOT_STARTED with no event).
C17_StatusFromLastEvent ==
  \A i \in 1..Len(store) : store[i].status = StatusOfLast(store[i].events)

\* C17 witness: a record that has gone through at least three transitions and
\* is ACTIVE again by a RESUME, RECONNECT or RESET.
C17_Witness ==
  \E i \in 1..Len(store) :
    /\ Len(store[i].events) >= 3
    /\ store[i].events[Len(store[i].events)].type \in {EvRESUME, EvRECONNECT, EvRESET}
    /\ store[i].status = ACTIVE

\* A record as it is before it exists: NOT_STARTED, no event.
Before(coll, coll2, i) ==
  IF i <= Len(coll) THEN coll[i]
  ELSE NewWorkday(coll2[i].userId, coll2[i].dateKey, NOT_STARTED)

IsPrefix(a, b) == Len(a) <= Len(b) /\ SubSeq(b, 1, Len(a)) = a

\* C18 as stated: in every step the events of each record stay a prefix, one
\* event is added when the record's status changes and none when it does not.
C18_OneEventPerStatusChange ==
  [][\A i \in 1..Len(store') :
       LET old == Before(store, store', i)
           new == store'[i]
       IN /\ IsPrefix(old.events, new.events)
          /\ Len(new.events) - Len(old.events)
               = IF new.status # old.status THEN 1 ELSE 0]_vars

\* The step is a reset served on an ACTIVE record, and i is that record.
ResetOnActive(i) ==
  /\ last' # last
  /\ last'.op = OpReset
  /\ last'.preDto.status = ACTIVE
  /\ store'[i].userId = last'.user
  /\ store'[i].dateKey = chileDateKey(now)

\* C18 amended: the events of each record stay a prefix; one event is added
\* when the record's status changes, none when it does not, except that a
\* reset on an ACTIVE record appends one RESET event.
C18_OneEventPerStatusChangeOrReset ==
  [][\A i \in 1..Len(store') :
       LET old == Before(store, store', i)
           new == store'[i]
       IN /\ IsPrefix(old.events, new.events)
          /\ Len(new.events) - Len(old.events)
               = IF new.status # old.status \/ ResetOnActive(i) THEN 1 ELSE 0
          /\ ResetOnActive(i) => new.events[Len(new.events)].type = EvRESET]_vars

\* C18 witness: a reset has been served on an ACTIVE record and its answer
\* shows one more event, a RESET, with the status still ACTIVE.
C18_Witness ==
  /\ last.op = OpReset
  /\ last.preDto.status = ACTIVE
  /\ last.err = NoErr
  /\ last.dto.status = ACTIVE
  /\ AppendsOne(last.preDto, last.dto, EvRESET)

\* C20: once the projection of a record shows a startedAt, every later
\* projection of that record shows the same one, whatever the operation.
C20_StartedAtSetOnce ==
  [][\A i \in 1..Len(store) :
       LET a == toDto(variant, store[i]).startedAt
           b == toDto(variant, store'[i]).startedAt
       IN a # NullIso => b = a]_vars

\* C20 witness: a start served on an ENDED record at a later instant than the
\* first arrival answers the startedAt the record had.
C20_Witness ==
  /\ last.op = OpStart
  /\ last.preDto.status = ENDED
  /\ last.err = NoErr
  /\ last.dto.status = ACTIVE
  /\ last.dto.startedAt # NullIso
  /\ last.dto.startedAt = last.preDto.startedAt
  /\ IsoTime(last.dto.events[Len(last.dto.events)].at) > IsoTime(last.dto.startedAt)

\* The collection holds no record of user u for the day of instant t.
NoRecordOn(coll, u, t) ==
  \A i \in 1..Len(coll) :
    ~(coll[i].userId = u /\ coll[i].dateKey = chileDateKey(t))

C27_OpenFieldsMatchStatus ==
  variant = "stored" =>
    \A i \in 1..Len(store) :
      /\ (store[i].pauseStartedAt # Null) <=> (store[i].status = PAUSED)
      /\ (store[i].lunchStartedAt # Null) <=> (store[i].status = LUNCH)
      /\ (store[i].endedAt # Null) <=> (store[i].status = ENDED)

\* C27 witness: a day that was paused and ended, and is active again.
C27_Witness ==
  /\ variant = "stored"
  /\ \E i \in 1..Len(store) :
       /\ store[i].status = ACTIVE
       /\ \E k \in 1..Len(store[i].events) : store[i].events[k].type = EvPAUSE
       /\ \E k \in 1..Len(store[i].events) : store[i].events[k].type = EvEND

\* ---------------------------------------------------------------- claims, concurrent
SameKey(a, b) == a.userId = b.userId /\ a.dateKey = b.dateKey

\* C9: at most one Workday record per (userId, dateKey), whatever the
\* interleaving of the requests' find and create steps.
C9_OneRecordPerKey ==
  \A i, j \in 1..Len(store) : SameKey(store[i], store[j]) => i = j

\* C9 witness: a request that found no record lost the creation race (its
\* insert was refused) and the collection holds the winner's record.
C9_Witness ==
  \E r \in ReqIds :
    /\ reqs[r].pc = "done"
    /\ reqs[r].err = DuplicateKey
    /\ findOne(store, reqs[r].user, reqs[r].dk) # 0

\* C10: no caller of a first action of the day receives the duplicate-key
\* error of a lost creation race; each receives a WorkdayDto.
C10_RaceNotSurfaced ==
  \A r \in ReqIds :
    reqs[r].pc = "done" => reqs[r].err # DuplicateKey

\* C28: every stored event's instant falls on the day the record's dateKey
\* names, also when the clock passes midnight while a request is served.
C28_EventsOnRecordDay ==
  \A i \in 1..Len(store) :
    \A k \in 1..Len(store[i].events) :
      chileDateKey(store[i].events[k].at) = store[i].dateKey

\* ---------------------------------------------------------------- claims, one day
\* C19: whatever the interleaving of the requests, the events of every stored
\* record are in non-decreasing order of their instants.
C19_EventsInTemporalOrder ==
  \A i \in 1..Len(store) :
    \A k \in 1..(Len(store[i].events) - 1) :
      store[i].events[k].at <= store[i].events[k + 1].at

\* ---------------------------------------------------------------- claims, bulk statuses
\* The ids a list of request strings names: every token that is not white
\* space.
NamedIds(userIds) == UNION {Range(userIds[j]) \ {Blank} : j \in DOMAIN userIds}

C25_OnlyLatestTokenAccepted ==
  [][(last' # last /\ last'.op = OpRefresh /\ last'.err = NoErr) =>
       /\ last'.presented = auth.latest[last'.user]
       /\ auth.hash[last'.user] # NoHash]_vars

\* ---------------------------------------------------------------- claims, side by side
\* C29: given the same calls of start, setActive, pause, lunch and end by one
\* user on one day, the two services answer each call with the same status
\* for as long as neither has rejected a call.
C29_SameStatus ==
  [][(last' # last /\ ~twin'.rejected) =>
       /\ last'.dto.status = twin'.dto.status
       /\ last'.post = getToday(Other(variant), twin'.store, last'.user, now).dto.status]_vars

\* C29 witness: four accepted calls took the day through a pause or a lunch
\* to its end and back to work in both services.
C29_Witness ==
  /\ ~twin.rejected
  /\ last # NoLast
  /\ last.preDto.status = ENDED
  /\ last.dto.status = ACTIVE
  /\ Len(store) = 1
  /\ Len(store[1].events) = 4
  /\ Len(twin.store[1].events) = 4
  /\ now > 0

\* ---------------------------------------------------------------- claims, calls gateway
\* C30: a message is relayed only from a socket that handleConnection
\* authenticated, to the room of payload.toUserId; call:start, call:accept,
\* call:reject and call:end only when payload.fromUserId is that socket's
\* user; a socket whose token is missing or fails verification never gets a
\* userId or a room, and ends disconnected.
C30_OnlyAuthenticatedRelays ==
  [][/\ (last' # last /\ last'.forwarded) =>
          /\ gateway[last'.socket].pc = "open"
          /\ gateway[last'.socket].token.sig = "accessSecret"
          /\ gateway[last'.socket].userId = gateway[last'.socket].token.sub
          /\ last'.op \in IdentityEvents =>
               last'.payload.fromUserId = gateway[last'.socket].token.sub
          /\ last'.room = last'.payload.toUserId
      /\ \A s \in SocketIds :
           gateway'[s].token.sig # "accessSecret" =>
             /\ gateway'[s].userId = NoUser
             /\ gateway'[s].room = NoUser
             /\ gateway'[s].pc \in {"closed", "verifying", "disconnected"}
             /\ (gateway[s].pc = "verifying" /\ gateway'[s] # gateway[s]) =>
                  gateway'[s].pc = "disconnected"]_vars

\* C30 witness: a call:start was relayed for one socket while the other,
\* whose token failed verification, has been disconnected.
C30_Witness ==
  /\ last # NoLast
  /\ last.op = "call:start"
  /\ last.forwarded
  /\ \E s \in SocketIds :
       /\ s # last.socket
       /\ gateway[s].pc = "disconnected"
       /\ gateway[s].token.sig = "other"

\* ---------------------------------------------------------------- claims, failing writes
\* C22: an operation in which a storage write fails leaves the collection as
\* it was before the operation; in particular a failed first start leaves no
\* record.
C22_FailedWriteLeavesState ==
  [][(last' # last /\ last'.err = StorageError) => store' = store]_vars

\* ---------------------------------------------------------------- claims, round trip
\* The second start of the round trip has been answered.
TripDone == last # NoLast /\ last.op = OpStart /\ last.preDto.status = ENDED

\* C21: no call of start, pause, setActive, lunch, end, start by a fresh user
\* on one day raises; after the second start the status is ACTIVE, the
\* collection holds exactly one record for the user and the day, and the
\* second start appended one RECONNECT or START event to it.
C21_RoundTrip ==
  /\ last # NoLast => last.err = NoErr
  /\ TripDone =>
       /\ last.dto.status = ACTIVE
       /\ last.post = ACTIVE
       /\ Len(store) = 1
       /\ Cardinality(Matches(store, last.user, last.dto.dateKey)) = 1
       /\ Len(store[1].events) = 6
       /\ \/ AppendsOne(last.preDto, last.dto, EvRECONNECT)
          \/ AppendsOne(last.preDto, last.dto, EvSTART)

\* C21 witness: the round trip is complete and the clock moved during it.
C21_Witness ==
  /\ TripDone
  /\ now > 0
  /\ Len(store[1].events) = 6

\* C26: whatever the interleaving of two requests on one record, the record
\* is one that the two operations run one after the other leave: no record
\* holds two PAUSE events in a row (a double-tapped pause leaves one), and
\* none has a pause and a lunch interval open together.
C26_SerialOutcomesOnly ==
  \A i \in 1..Len(store) :
    /\ \A k \in 1..(Len(store[i].events) - 1) :
         ~(store[i].events[k].type = EvPAUSE /\ store[i].events[k + 1].type = EvPAUSE)
    /\ ~(store[i].pauseStartedAt # Null /\ store[i].lunchStartedAt # Null)
====
